---- MODULE Spec2Model ----
(***************************************************************************)
(* Smart_Reminder (src/app.py): a Flask form stores one-time reminders, a  *)
(* background APScheduler interval job (check_and_send_reminders) selects  *)
(* the unsent reminders that are due in IST, mails each through            *)
(* send_email and commits sent=True after a successful send.               *)
(*                                                                         *)
(* Time is counted in whole units of the clock; a naive datetime is the    *)
(* number of units since the model's epoch in the zone it was taken in.    *)
(* A reminder's id is its position in the table (autoincrement key).       *)
(***************************************************************************)
EXTENDS Integers, Sequences, FiniteSets, TLC

\* ---------------------------------------------------------------- bounds
MaxClock     == 2      \* the UTC clock runs over 0..MaxClock
MaxReminders == 2      \* rows the table can hold
MaxFires     == 2      \* firings of the interval trigger
NThreads     == 2      \* executor threads that can run job instances

\* ------------------------------------------------------ program constants
ISTOffset    == 330    \* Asia/Kolkata is UTC+05:30, in minutes
MaxInstances == 1      \* add_job(..., max_instances=1)

Threads   == 1..NThreads
RemindAts == {ISTOffset + k : k \in 0..(MaxClock + 1)}

\* The form fields of a POST as submitted. A text field is a sequence of
\* characters; the remind_at field is absent, text that does not match
\* %Y-%m-%dT%H:%M, or text in that format naming a time.
Emails     == {<<>>, <<" ">>, <<"a">>, <<"a", " ">>}
Messages   == {<<>>, <<"m">>, <<" ", "m">>}
RemindStrs == {[fmt |-> "none", at |-> 0], [fmt |-> "bad", at |-> 0]}
                \cup {[fmt |-> "iso", at |-> d] : d \in RemindAts}

VARIABLES
  clock,       \* the process's UTC wall clock
  configured,  \* EMAIL_USER and EMAIL_PASS are both set in the environment
  store,       \* the reminders table: sequence of rows, id = position
  procOf,      \* the process (scheduler instance) each executor thread belongs to
  instances,   \* per scheduler: running instances of job reminder_checker
  pc,          \* per thread: position of the job instance it runs
  now_ist,     \* per thread: now_ist computed at the start of the tick
  pending,     \* per thread: the rows returned by the query, as ids in order
  idx,         \* per thread: position of the for loop in pending
  dirty,       \* per thread: ids whose sent=True is set in the session, uncommitted
  tried,       \* per thread: ids send_email was called for in this tick
  delivered,   \* per thread: ids send_email returned True for in this tick
  calls,       \* per thread: the send_email calls of this tick, with their arguments
  failedCommit,\* per thread: ids whose commit raised in this tick
  oks,         \* per id: number of send_email calls that returned True
  fails,       \* per id: number of send_email calls that returned False
  marks,       \* per id: number of commits that wrote sent = True for the row
  fires,       \* firings of the interval trigger so far
  skipped,     \* firings dropped because max_instances was reached
  runs,        \* job instances submitted to the executor
  crashes,     \* job instances that ended by raising
  errors,      \* invocations of scheduler_error_listener
  req,         \* the last POST as submitted, with the IST now it was judged at
  healthy      \* the store and the mail transport have stopped failing for good

vars == <<clock, configured, store, procOf, instances, pc, now_ist, pending,
          idx, dirty, tried, delivered, calls, failedCommit, oks, fails, marks,
          fires, skipped, runs, crashes, errors, req, healthy>>

localVars == <<now_ist, pending, idx, dirty, tried, delivered, calls, failedCommit>>
tickVars  == <<pc, localVars>>
histVars  == <<oks, fails, marks>>
fixedVars == <<procOf, req, healthy>>
schedVars == <<instances, fires, skipped, runs, crashes, errors>>

\* ---------------------------------------------------------------- clock
\* datetime.utcnow(): naive UTC now.
NowUtc(c) == c

\* datetime.now(IST).replace(tzinfo=None): naive IST now.
NowIst(c) == c + ISTOffset

\* ---------------------------------------------------------------- store
Ids(s) == 1..Len(s)

\* Reminder(email=..., message=..., remind_at=...): sent defaults to False.
NewReminder(email, message, remind_dt) ==
  [email |-> email, message |-> message, remind_at |-> remind_dt, sent |-> FALSE]

\* mutant: the time bound is left out of the filter
IsDueAnyTime(row, now) == row.sent = FALSE

\* mutant: the time bound is strict
IsDueStrict(row, now) == row.remind_at < now /\ row.sent = FALSE

\* the filter of the query: remind_at <= now_ist, sent == False
IsDue(row, now) == row.remind_at <= now /\ row.sent = FALSE

RECURSIVE SelectFrom(_, _, _)
\* the ids of the rows i..Len(s) of s that pass the filter, in id order
SelectFrom(s, now, i) ==
  IF i > Len(s) THEN <<>>
  ELSE IF IsDue(s[i], now)
       THEN <<i>> \o SelectFrom(s, now, i + 1)
       ELSE SelectFrom(s, now, i + 1)

\* Reminder.query.filter(remind_at <= now_ist, sent == False).all()
DueSelection(s, now) == SelectFrom(s, now, 1)

\* mutant: the flush writes the sent column of every row from the session
FlushOverwrite(s, d) == [i \in Ids(s) |-> [s[i] EXCEPT !.sent = (i \in d)]]

\* db.session.commit(): flush the session's dirty rows (sent = True) to the table.
Flush(s, d) == [i \in Ids(s) |-> IF i \in d THEN [s[i] EXCEPT !.sent = TRUE] ELSE s[i]]

\* ------------------------------------------------------------- notifier
\* mutant: the credentials are not looked at before the message is handed over
SendEmailNoConfigCheck(conf, smtpOk) == smtpOk

\* send_email: False when the credentials are missing, False when SMTP raises,
\* True otherwise.
SendEmail(conf, smtpOk) == IF ~conf THEN FALSE ELSE smtpOk

\* ---------------------------------------------------------------- helpers
Range(q) == {q[i] : i \in 1..Len(q)}

Running(p) == {t \in Threads : procOf[t] = p /\ pc[t] # "idle"}

\* the executor hands a job instance to its lowest idle thread
FreeThread(p) ==
  CHOOSE t \in Threads : /\ procOf[t] = p /\ pc[t] = "idle"
                         /\ \A u \in Threads : (procOf[u] = p /\ pc[u] = "idle") => t <= u

\* mutant: the job is added without max_instances=1 and two instances may run
CanSubmitTwo(p) == instances[p] < MaxInstances + 1

\* executor.submit_job: MaxInstancesReachedError when the job already has
\* max_instances running instances
CanSubmit(p) == instances[p] < MaxInstances

\* ------------------------------------------------- form parsing, counters
RECURSIVE LStrip(_)
\* str.lstrip(): drop the leading blanks
LStrip(q) == IF q # <<>> /\ Head(q) = " " THEN LStrip(Tail(q)) ELSE q

RECURSIVE RStrip(_)
\* str.rstrip(): drop the trailing blanks
RStrip(q) == IF q # <<>> /\ q[Len(q)] = " " THEN RStrip(SubSeq(q, 1, Len(q) - 1)) ELSE q

\* request.form.get(..., "").strip()
Strip(q) == RStrip(LStrip(q))

\* mutant: the time check accepts a time equal to now
NotInFutureStrict(remind_dt, now) == remind_dt < now

\* mutant: the time check compares with the UTC now
NotInFutureUtc(remind_dt, now) == remind_dt <= now - ISTOffset

\* line 155: remind_dt <= now_ist, "Scheduled time must be in the future."
NotInFuture(remind_dt, now) == remind_dt <= now

\* lines 142-158: the list of validation errors of a POST judged at IST time now
FormErrors(email, message, remind_str, now) ==
  (IF Strip(email) = <<>> THEN {"email"} ELSE {})
  \cup (IF Strip(message) = <<>> THEN {"message"} ELSE {})
  \cup (IF remind_str.fmt = "none" THEN {"required"} ELSE {})
  \cup (IF remind_str.fmt = "bad" THEN {"format"} ELSE {})
  \cup (IF remind_str.fmt = "iso" /\ NotInFuture(remind_str.at, now) THEN {"future"} ELSE {})

\* a history counter goes up by one; it never passes the number of firings, which
\* is where it stays once the trigger fires without bound
Bump(n) == IF n < MaxFires THEN n + 1 ELSE n

NoRequest == [email |-> <<>>, message |-> <<>>, remind_str |-> [fmt |-> "none", at |-> 0],
              now |-> NowIst(0)]

\* ------------------------------------------------------------------ Init
\* The state after import with the executor threads owned as po says: an empty
\* table, one scheduler per process, no job instance running.
InitWith(po) ==
  /\ clock = 0
  /\ configured \in BOOLEAN
  /\ store = <<>>
  /\ procOf = po
  /\ instances = [p \in Threads |-> 0]
  /\ pc = [t \in Threads |-> "idle"]
  /\ now_ist = [t \in Threads |-> NowIst(0)]
  /\ pending = [t \in Threads |-> <<>>]
  /\ idx = [t \in Threads |-> 1]
  /\ dirty = [t \in Threads |-> {}]
  /\ tried = [t \in Threads |-> {}]
  /\ delivered = [t \in Threads |-> {}]
  /\ calls = [t \in Threads |-> <<>>]
  /\ failedCommit = [t \in Threads |-> {}]
  /\ oks = <<>>
  /\ fails = <<>>
  /\ marks = <<>>
  /\ fires = 0
  /\ skipped = 0
  /\ runs = 0
  /\ crashes = 0
  /\ errors = 0
  /\ req = NoRequest
  /\ healthy = FALSE

\* one process: every executor thread belongs to the one scheduler
Init == InitWith([t \in Threads |-> 1])

\* ----------------------------------------------------------- environment
\* time passes
ClockTick ==
  /\ clock < MaxClock
  /\ clock' = clock + 1
  /\ UNCHANGED <<configured, store, fixedVars, tickVars, histVars, schedVars>>

\* the credentials appear in or disappear from the environment
SetCredentials ==
  /\ ~healthy
  /\ configured' = ~configured
  /\ UNCHANGED <<clock, store, fixedVars, tickVars, histVars, schedVars>>

\* ---------------------------------------------------------------- intake
\* mutant: the row is added with the fields as submitted, not stripped
CreateUnstripped(email, message, remind_str) ==
  /\ Len(store) < MaxReminders
  /\ IF FormErrors(email, message, remind_str, NowIst(clock)) # {}
     THEN UNCHANGED <<store, histVars>>
     ELSE /\ store' = Append(store, NewReminder(email, message, remind_str.at))
          /\ oks' = Append(oks, 0)
          /\ fails' = Append(fails, 0)
          /\ marks' = Append(marks, 0)
  /\ UNCHANGED <<clock, configured, procOf, healthy, tickVars, schedVars>>

\* index(), POST: strip the fields, validate, add the row and commit; with
\* errors the request is answered by a redirect and nothing is stored.
Create(email, message, remind_str) ==
  /\ Len(store) < MaxReminders
  /\ IF FormErrors(email, message, remind_str, NowIst(clock)) # {}
     THEN UNCHANGED <<store, histVars>>
     ELSE /\ store' = Append(store, NewReminder(Strip(email), Strip(message), remind_str.at))
          /\ oks' = Append(oks, 0)
          /\ fails' = Append(fails, 0)
          /\ marks' = Append(marks, 0)
  /\ UNCHANGED <<clock, configured, procOf, healthy, tickVars, schedVars>>

\* ------------------------------------------------------------- scheduler
\* The interval trigger fires and the executor accepts the job instance.
TimerRun(p) ==
  /\ fires < MaxFires
  /\ CanSubmit(p)
  /\ \E t \in Threads : procOf[t] = p /\ pc[t] = "idle"
  /\ pc' = [pc EXCEPT ![FreeThread(p)] = "begin"]
  /\ instances' = [instances EXCEPT ![p] = @ + 1]
  /\ fires' = fires + 1
  /\ runs' = runs + 1
  /\ UNCHANGED <<clock, configured, store, fixedVars, localVars, histVars,
                 skipped, crashes, errors>>

\* The interval trigger fires while max_instances instances are running: the
\* run is dropped (EVENT_JOB_MAX_INSTANCES), nothing is submitted or queued.
TimerSkip(p) ==
  /\ fires < MaxFires
  /\ ~CanSubmit(p)
  /\ fires' = fires + 1
  /\ skipped' = skipped + 1
  /\ UNCHANGED <<clock, configured, store, fixedVars, tickVars, histVars,
                 instances, runs, crashes, errors>>

\* The interval trigger of a scheduler that runs without end: as TimerRun, the
\* firings not counted.
TimerLive(p) ==
  /\ CanSubmit(p)
  /\ \E t \in Threads : procOf[t] = p /\ pc[t] = "idle"
  /\ pc' = [pc EXCEPT ![FreeThread(p)] = "begin"]
  /\ instances' = [instances EXCEPT ![p] = @ + 1]
  /\ UNCHANGED <<clock, configured, store, fixedVars, localVars, histVars,
                 fires, skipped, runs, crashes, errors>>

\* mutant: now is taken once, when the module is imported
BeginNowAtImport(t) ==
  /\ pc[t] = "begin"
  /\ now_ist' = [now_ist EXCEPT ![t] = NowIst(0)]
  /\ pc' = [pc EXCEPT ![t] = "query"]
  /\ UNCHANGED <<clock, configured, store, fixedVars, pending, idx, dirty, tried,
                 delivered, calls, failedCommit, histVars, schedVars>>

\* check_and_send_reminders, lines 90-93: enter the app context, take now.
Begin(t) ==
  /\ pc[t] = "begin"
  /\ now_ist' = [now_ist EXCEPT ![t] = NowIst(clock)]
  /\ pc' = [pc EXCEPT ![t] = "query"]
  /\ UNCHANGED <<clock, configured, store, fixedVars, pending, idx, dirty, tried,
                 delivered, calls, failedCommit, histVars, schedVars>>

\* lines 95-102: the query; an empty result returns at once.
Query(t) ==
  /\ pc[t] = "query"
  /\ LET rows == DueSelection(store, now_ist[t])
     IN /\ pending' = [pending EXCEPT ![t] = rows]
        /\ pc' = [pc EXCEPT ![t] = IF rows = <<>> THEN "done" ELSE "send"]
  /\ UNCHANGED <<clock, configured, store, fixedVars, now_ist, idx, dirty, tried,
                 delivered, calls, failedCommit, histVars, schedVars>>

\* lines 95-98 when the store is unreachable: the query raises out of the job.
QueryFails(t) ==
  /\ pc[t] = "query"
  /\ ~healthy
  /\ pc' = [pc EXCEPT ![t] = "raised"]
  /\ crashes' = Bump(crashes)
  /\ UNCHANGED <<clock, configured, store, fixedVars, localVars, histVars,
                 instances, fires, skipped, runs, errors>>

\* mutant: the for loop stops one reminder short
AfterItemEarly(t, i) == IF i + 1 >= Len(pending[t]) THEN "done" ELSE "send"

\* where the for loop goes after the reminder at position i
AfterItem(t, i) == IF i >= Len(pending[t]) THEN "done" ELSE "send"

\* line 106: the call send_email(reminder.email, reminder.message) for row r
SendCall(r) == [id |-> r, to |-> store[r].email, message |-> store[r].message]

\* mutant: reminder.sent = True is set before the result of the send is looked at
SendMarksAlways(t, smtpOk) ==
  /\ pc[t] = "send"
  /\ healthy => smtpOk
  /\ LET r == pending[t][idx[t]]
         success == SendEmail(configured, smtpOk)
     IN /\ tried' = [tried EXCEPT ![t] = @ \cup {r}]
        /\ calls' = [calls EXCEPT ![t] = Append(@, SendCall(r))]
        /\ dirty' = [dirty EXCEPT ![t] = @ \cup {r}]
        /\ IF success
           THEN /\ oks' = [oks EXCEPT ![r] = Bump(@)]
                /\ delivered' = [delivered EXCEPT ![t] = @ \cup {r}]
                /\ pc' = [pc EXCEPT ![t] = "commit"]
                /\ UNCHANGED <<fails, idx, crashes>>
           ELSE /\ fails' = [fails EXCEPT ![r] = Bump(@)]
                /\ idx' = [idx EXCEPT ![t] = @ + 1]
                /\ pc' = [pc EXCEPT ![t] = AfterItem(t, idx[t])]
                /\ UNCHANGED <<oks, delivered, crashes>>
  /\ UNCHANGED <<clock, configured, store, fixedVars, now_ist, pending,
                 failedCommit, marks, instances, fires, skipped, runs, errors>>

\* mutant: send_email lets the SMTP exception out instead of returning False
SendRaises(t, smtpOk) ==
  /\ pc[t] = "send"
  /\ healthy => smtpOk
  /\ LET r == pending[t][idx[t]]
         success == SendEmail(configured, smtpOk)
     IN /\ tried' = [tried EXCEPT ![t] = @ \cup {r}]
        /\ calls' = [calls EXCEPT ![t] = Append(@, SendCall(r))]
        /\ IF success
           THEN /\ oks' = [oks EXCEPT ![r] = Bump(@)]
                /\ delivered' = [delivered EXCEPT ![t] = @ \cup {r}]
                /\ dirty' = [dirty EXCEPT ![t] = @ \cup {r}]
                /\ pc' = [pc EXCEPT ![t] = "commit"]
                /\ UNCHANGED <<fails, idx, crashes>>
           ELSE /\ fails' = [fails EXCEPT ![r] = Bump(@)]
                /\ pc' = [pc EXCEPT ![t] = "raised"]
                /\ crashes' = Bump(crashes)
                /\ UNCHANGED <<oks, delivered, idx, dirty>>
  /\ UNCHANGED <<clock, configured, store, fixedVars, now_ist, pending,
                 failedCommit, marks, instances, fires, skipped, runs, errors>>

\* mutant: the commit is left to the end of the loop, one commit for the tick
SendBatches(t, smtpOk) ==
  /\ pc[t] = "send"
  /\ healthy => smtpOk
  /\ LET r == pending[t][idx[t]]
         success == SendEmail(configured, smtpOk)
     IN /\ tried' = [tried EXCEPT ![t] = @ \cup {r}]
        /\ calls' = [calls EXCEPT ![t] = Append(@, SendCall(r))]
        /\ IF success
           THEN /\ oks' = [oks EXCEPT ![r] = Bump(@)]
                /\ delivered' = [delivered EXCEPT ![t] = @ \cup {r}]
                /\ dirty' = [dirty EXCEPT ![t] = @ \cup {r}]
                /\ idx' = [idx EXCEPT ![t] = IF idx[t] >= Len(pending[t]) THEN @ ELSE @ + 1]
                /\ pc' = [pc EXCEPT ![t] = IF idx[t] >= Len(pending[t]) THEN "commit" ELSE "send"]
                /\ UNCHANGED <<fails, crashes>>
           ELSE /\ fails' = [fails EXCEPT ![r] = Bump(@)]
                /\ idx' = [idx EXCEPT ![t] = @ + 1]
                /\ pc' = [pc EXCEPT ![t] = AfterItem(t, idx[t])]
                /\ UNCHANGED <<oks, delivered, crashes, dirty>>
  /\ UNCHANGED <<clock, configured, store, fixedVars, now_ist, pending,
                 failedCommit, marks, instances, fires, skipped, runs, errors>>

\* lines 104-108, 111-112: send the mail for the current reminder; on success
\* set reminder.sent = True in the session, on failure go on to the next one.
Send(t, smtpOk) ==
  /\ pc[t] = "send"
  /\ healthy => smtpOk
  /\ LET r == pending[t][idx[t]]
         success == SendEmail(configured, smtpOk)
     IN /\ tried' = [tried EXCEPT ![t] = @ \cup {r}]
        /\ calls' = [calls EXCEPT ![t] = Append(@, SendCall(r))]
        /\ IF success
           THEN /\ oks' = [oks EXCEPT ![r] = Bump(@)]
                /\ delivered' = [delivered EXCEPT ![t] = @ \cup {r}]
                /\ dirty' = [dirty EXCEPT ![t] = @ \cup {r}]
                /\ pc' = [pc EXCEPT ![t] = "commit"]
                /\ UNCHANGED <<fails, idx, crashes>>
           ELSE /\ fails' = [fails EXCEPT ![r] = Bump(@)]
                /\ idx' = [idx EXCEPT ![t] = @ + 1]
                /\ pc' = [pc EXCEPT ![t] = AfterItem(t, idx[t])]
                /\ UNCHANGED <<oks, delivered, crashes, dirty>>
  /\ UNCHANGED <<clock, configured, store, fixedVars, now_ist, pending,
                 failedCommit, marks, instances, fires, skipped, runs, errors>>

\* the rows a commit of session d writes, counted per id
Marked(d) == [i \in Ids(store) |-> IF i \in d THEN Bump(marks[i]) ELSE marks[i]]

\* mutant: the commit marks every row of the selection
CommitMarksSelection(t) ==
  /\ pc[t] = "commit"
  /\ store' = Flush(store, Range(pending[t]))
  /\ marks' = Marked(Range(pending[t]))
  /\ dirty' = [dirty EXCEPT ![t] = {}]
  /\ idx' = [idx EXCEPT ![t] = @ + 1]
  /\ pc' = [pc EXCEPT ![t] = AfterItem(t, idx[t])]
  /\ UNCHANGED <<clock, configured, fixedVars, now_ist, pending, tried, delivered,
                 calls, failedCommit, oks, fails, schedVars>>

\* lines 109-110: db.session.commit() succeeds.
Commit(t) ==
  /\ pc[t] = "commit"
  /\ store' = Flush(store, dirty[t])
  /\ marks' = Marked(dirty[t])
  /\ dirty' = [dirty EXCEPT ![t] = {}]
  /\ idx' = [idx EXCEPT ![t] = @ + 1]
  /\ pc' = [pc EXCEPT ![t] = AfterItem(t, idx[t])]
  /\ UNCHANGED <<clock, configured, fixedVars, now_ist, pending, tried, delivered,
                 calls, failedCommit, oks, fails, schedVars>>

\* mutant: the exception is raised after the row was written
CommitFailsAfterWrite(t) ==
  /\ pc[t] = "commit"
  /\ ~healthy
  /\ store' = Flush(store, dirty[t])
  /\ dirty' = [dirty EXCEPT ![t] = {}]
  /\ failedCommit' = [failedCommit EXCEPT ![t] = @ \cup {pending[t][idx[t]]}]
  /\ pc' = [pc EXCEPT ![t] = "raised"]
  /\ crashes' = Bump(crashes)
  /\ UNCHANGED <<clock, configured, fixedVars, now_ist, pending, idx, tried,
                 delivered, calls, histVars, instances, fires, skipped, runs, errors>>

\* line 109: db.session.commit() raises; nothing catches it inside the loop, the
\* exception leaves the for loop and the job, the app context drops the session.
CommitFails(t) ==
  /\ pc[t] = "commit"
  /\ ~healthy
  /\ dirty' = [dirty EXCEPT ![t] = {}]
  /\ failedCommit' = [failedCommit EXCEPT ![t] = @ \cup {pending[t][idx[t]]}]
  /\ pc' = [pc EXCEPT ![t] = "raised"]
  /\ crashes' = Bump(crashes)
  /\ UNCHANGED <<clock, configured, store, fixedVars, now_ist, pending, idx, tried,
                 delivered, calls, histVars, instances, fires, skipped, runs, errors>>

\* the job function is over: its locals are gone
DropLocals(t) ==
  /\ now_ist' = [now_ist EXCEPT ![t] = NowIst(0)]
  /\ pending' = [pending EXCEPT ![t] = <<>>]
  /\ idx' = [idx EXCEPT ![t] = 1]
  /\ dirty' = [dirty EXCEPT ![t] = {}]
  /\ tried' = [tried EXCEPT ![t] = {}]
  /\ delivered' = [delivered EXCEPT ![t] = {}]
  /\ calls' = [calls EXCEPT ![t] = <<>>]
  /\ failedCommit' = [failedCommit EXCEPT ![t] = {}]

\* the job returned: the executor releases the instance.
JobDone(t) ==
  /\ pc[t] = "done"
  /\ pc' = [pc EXCEPT ![t] = "idle"]
  /\ instances' = [instances EXCEPT ![procOf[t]] = @ - 1]
  /\ DropLocals(t)
  /\ UNCHANGED <<clock, configured, store, fixedVars, histVars, fires, skipped,
                 runs, crashes, errors>>

\* mutant: the instance count is only released when the job returns normally
JobErrorKeepsInstance(t) ==
  /\ pc[t] = "raised"
  /\ pc' = [pc EXCEPT ![t] = "idle"]
  /\ errors' = Bump(errors)
  /\ DropLocals(t)
  /\ UNCHANGED <<clock, configured, store, fixedVars, histVars, instances, fires,
                 skipped, runs, crashes>>

\* the job raised: the executor releases the instance and dispatches
\* EVENT_JOB_ERROR to scheduler_error_listener.
JobError(t) ==
  /\ pc[t] = "raised"
  /\ pc' = [pc EXCEPT ![t] = "idle"]
  /\ instances' = [instances EXCEPT ![procOf[t]] = @ - 1]
  /\ errors' = Bump(errors)
  /\ DropLocals(t)
  /\ UNCHANGED <<clock, configured, store, fixedVars, histVars, fires, skipped,
                 runs, crashes>>

\* the store and the mail transport recover for good, the credentials are set
Heal ==
  /\ ~healthy
  /\ healthy' = TRUE
  /\ configured' = TRUE
  /\ UNCHANGED <<clock, store, procOf, req, tickVars, histVars, schedVars>>

\* the POST as index() sees it: the submitted fields and the IST now they are
\* judged at
Request(e, m, d) == [email |-> e, message |-> m, remind_str |-> d, now |-> NowIst(clock)]

Schedulers == {procOf[t] : t \in Threads}

Next ==
  \/ ClockTick
  \/ SetCredentials
  \/ \E e \in Emails, m \in Messages, d \in RemindStrs : Create(e, m, d) /\ UNCHANGED req
  \/ \E p \in Schedulers : TimerRun(p)
  \/ \E p \in Schedulers : TimerSkip(p)
  \/ \E t \in Threads : Begin(t)
  \/ \E t \in Threads : Query(t)
  \/ \E t \in Threads : QueryFails(t)
  \/ \E t \in Threads, smtpOk \in BOOLEAN : Send(t, smtpOk)
  \/ \E t \in Threads : Commit(t)
  \/ \E t \in Threads : CommitFails(t)
  \/ \E t \in Threads : JobDone(t)
  \/ \E t \in Threads : JobError(t)

\* one process, a bounded number of firings
Spec == Init /\ [][Next]_vars

\* Gunicorn workers: every process that imports the module starts its own
\* scheduler on the one table; each executor thread is its own process here.
InitWorkers == InitWith([t \in Threads |-> t])

\* several processes, a bounded number of firings over all of them
SpecWorkers == InitWorkers /\ [][Next]_vars

\* the form alone: requests are submitted as the clock goes on, each one kept
\* in req for the properties to look at
NextIntake ==
  \/ ClockTick
  \/ \E e \in Emails, m \in Messages, d \in RemindStrs :
       Create(e, m, d) /\ req' = Request(e, m, d)

SpecIntake == Init /\ [][NextIntake]_vars

\* one step of a running job instance
TickStep ==
  \E t \in Threads :
    \/ Begin(t) \/ Query(t) \/ QueryFails(t)
    \/ \E smtpOk \in BOOLEAN : Send(t, smtpOk)
    \/ Commit(t) \/ CommitFails(t) \/ JobDone(t) \/ JobError(t)

\* the scheduler left running: the trigger fires without bound, and the outage
\* of the store and the mail transport may end
NextLive ==
  \/ ClockTick
  \/ SetCredentials
  \/ Heal
  \/ \E e \in Emails, m \in Messages, d \in RemindStrs : Create(e, m, d) /\ UNCHANGED req
  \/ \E p \in Schedulers : TimerLive(p)
  \/ \E t \in Threads : Begin(t)
  \/ \E t \in Threads : Query(t)
  \/ \E t \in Threads : QueryFails(t)
  \/ \E t \in Threads, smtpOk \in BOOLEAN : Send(t, smtpOk)
  \/ \E t \in Threads : Commit(t)
  \/ \E t \in Threads : CommitFails(t)
  \/ \E t \in Threads : JobDone(t)
  \/ \E t \in Threads : JobError(t)

\* The interval trigger keeps firing and the executor thread keeps running the
\* job it was handed; nothing is assumed of the clock, the form or the outage.
SpecLive ==
  /\ Init /\ [][NextLive]_vars
  /\ WF_vars(\E p \in Schedulers : TimerLive(p))
  /\ WF_vars(TickStep)

\* ------------------------------------------------------------ properties
\* a tick has ended (returned or raised) and its locals are still in place
Ended(t) == pc[t] \in {"done", "raised"}

\* the tick of thread t made its selection
Selected(t) == pc[t] \in {"send", "commit", "done"} \/ (pc[t] = "raised" /\ pending[t] # <<>>)

\* the reminders whose send failed in the tick of thread t
FailedIn(t) == tried[t] \ delivered[t]

\* C1: a reminder whose stored sent flag is true has had a send_email call
\* return True for it, and a tick that has the reminder in its selection has it
\* stored as sent only if its own send for it succeeded (not failed, not
\* unattempted).
C1_SentOnlyAfterSuccess ==
  \A r \in Ids(store) :
    store[r].sent =>
      /\ oks[r] >= 1
      /\ \A t \in Threads : r \in Range(pending[t]) => r \in delivered[t]

\* C1 witness: a reminder is stored as sent after an earlier failed attempt.
C1_Witness == \E r \in Ids(store) : store[r].sent /\ fails[r] >= 1

\* C2: once send_email has succeeded for a reminder it is in no later tick's
\* selection and send_email is never called for it again: at most one success
\* per reminder, and only the tick that delivered it has it selected.
C2_NoDoubleSend ==
  \A r \in Ids(store) :
    /\ oks[r] <= 1
    /\ oks[r] >= 1 => \A t \in Threads : r \in Range(pending[t]) => r \in delivered[t]

\* C3: a reminder whose send failed in a tick is unsent after that tick, and a
\* later tick that selects it calls send_email for it again before it ends.
C3_RetriedOnNextTick ==
  \A t \in Threads :
    Ended(t) =>
      /\ \A r \in FailedIn(t) : ~store[r].sent
      /\ \A r \in Range(pending[t]) : fails[r] >= 1 => r \in tried[t]

\* C4: no reminder that is selected or mailed in a tick has remind_at later than
\* the now_ist of that tick, and a tick with an empty selection calls send_email
\* for nothing and leaves nothing to write.
C4_NoPrematureSend ==
  \A t \in Threads :
    /\ \A r \in Range(pending[t]) \cup tried[t] : store[r].remind_at <= now_ist[t]
    /\ (pc[t] = "done" /\ pending[t] = <<>>) =>
         (tried[t] = {} /\ delivered[t] = {} /\ dirty[t] = {})

\* C4 witness: a tick ended with an empty selection while an unsent reminder
\* that is not yet due is stored.
C4_Witness ==
  \E t \in Threads :
    /\ pc[t] = "done" /\ pending[t] = <<>>
    /\ \E r \in Ids(store) : ~store[r].sent /\ store[r].remind_at > now_ist[t]

\* C5: in every tick that made its selection, every stored reminder that is
\* unsent and has remind_at <= now_ist of the tick (the boundary included, rows
\* created during the tick included) is in the selection.
C5_DueIncluded ==
  \A t \in Threads :
    Selected(t) =>
      \A r \in Ids(store) :
        (~store[r].sent /\ store[r].remind_at <= now_ist[t]) => r \in Range(pending[t])

\* C5 witness: a tick selected a reminder whose remind_at equals its now_ist,
\* after an earlier attempt for it failed, while a row that is not yet due is
\* stored outside the selection.
C5_Witness ==
  \E t \in Threads :
    /\ pc[t] = "send"
    /\ \E r \in Range(pending[t]) : store[r].remind_at = now_ist[t] /\ fails[r] >= 1
    /\ \E r \in Ids(store) : r \notin Range(pending[t]) /\ store[r].remind_at > now_ist[t]

\* C6: a row is created with sent = False, no step removes a row, and no step
\* takes a row's sent flag from true back to false.
C6_SentMonotonic ==
  [][/\ Len(store') >= Len(store)
     /\ \A r \in Ids(store') :
          IF r \in Ids(store) THEN store[r].sent => store'[r].sent
                              ELSE ~store'[r].sent]_vars

\* C6 witness: two rows are stored as sent (a commit ran while another row was
\* already sent).
C6_Witness ==
  \E r1, r2 \in Ids(store) : r1 # r2 /\ store[r1].sent /\ store[r2].sent

\* C7: at most max_instances = 1 instance of the job runs per scheduler; a
\* firing that finds an instance running is dropped: it changes no row, calls
\* send_email for nothing, starts and queues no instance, so every firing is
\* either one started instance or one dropped run.
C7_OverlapPrevention ==
  [][/\ \A p \in Threads : Cardinality(Running(p))' <= MaxInstances
     /\ runs' + skipped' = fires'
     /\ skipped' # skipped =>
          UNCHANGED <<store, tickVars, histVars, instances, runs>>]_vars

\* C7 witness: a firing was dropped while the running tick is in its loop.
C7_Witness == skipped >= 1 /\ \E t \in Threads : pc[t] \in {"send", "commit"}

C9_LoopIsolation ==
  \A t \in Threads : Ended(t) => tried[t] = Range(pending[t])

\* C10: every tick that raised is reported to the error listener when the
\* executor takes it back, and the instance count of a scheduler equals the
\* number of its running instances, so after a crashed tick the guard is open
\* and the next firing is run, not dropped.
C10_CrashReleasesGuard ==
  /\ errors + Cardinality({t \in Threads : pc[t] = "raised"}) = crashes
  /\ \A p \in Threads :
       /\ instances[p] = Cardinality(Running(p))
       /\ Running(p) = {} => CanSubmit(p)

\* C10 witness: a tick is in its loop after an earlier tick crashed.
C10_Witness == errors >= 1 /\ \E t \in Threads : pc[t] = "send"

\* C11: marking a reminder sent is one conditional update that tells whether the
\* flag went from false to true: however many callers mark the same id, in
\* sequence or at once, only one of them performs (and is told of) the
\* transition, so at most one commit writes sent = True for a row.
C11_OneTransition == \A r \in Ids(store) : marks[r] <= 1

\* the row a POST q asks for, with the fields as given / as index() keeps them
RowAsGiven(q) ==
  [email |-> q.email, message |-> q.message, remind_at |-> q.remind_str.at, sent |-> FALSE]
RowStripped(q) ==
  [email |-> Strip(q.email), message |-> Strip(q.message),
   remind_at |-> q.remind_str.at, sent |-> FALSE]

\* C12 as stated: a request with a due time is rejected, the table unchanged,
\* when the given recipient is empty, the given message is empty or the due
\* time is not after now; otherwise one row with a fresh id, the given
\* recipient, message and due time and sent = False is added.
C12_Original ==
  [][(clock' = clock /\ req'.remind_str.fmt = "iso") =>
       LET q == req'
       IN IF q.email = <<>> \/ q.message = <<>> \/ q.remind_str.at <= q.now
          THEN store' = store
          ELSE store' = Append(store, RowAsGiven(q))]_vars

\* C12 amended: the recipient and the message are judged and stored with the
\* blanks around them stripped; a request is rejected, the table unchanged, when
\* the stripped recipient or message is empty, when the due time is missing or
\* unreadable, or when it is not strictly after the IST now of the call (equal
\* is rejected); otherwise exactly one row is added, its id the next one, with
\* the stripped recipient and message, the due time and sent = False.
C12_CreateValidation ==
  [][clock' = clock =>
       LET q == req'
           rejected == \/ Strip(q.email) = <<>>
                       \/ Strip(q.message) = <<>>
                       \/ q.remind_str.fmt # "iso"
                       \/ q.remind_str.at <= q.now
       IN /\ q.now = NowIst(clock)
          /\ IF rejected THEN store' = store
                         ELSE store' = Append(store, RowStripped(q))]_vars

\* C12 witness: a request with recipient and message whose due time equals now
\* was rejected after another one was stored.
C12_Witness ==
  /\ Len(store) = 1
  /\ req.remind_str.fmt = "iso" /\ req.remind_str.at = req.now
  /\ Strip(req.email) # <<>> /\ Strip(req.message) # <<>>

\* C13: a tick that returned called send_email exactly once for every reminder
\* of its selection, in order, with the stored recipient and message of the row,
\* and for nothing else; after it a selected reminder is stored as sent exactly
\* when this call succeeded; so a reminder is mailed at most once per tick that
\* ran, and once it is stored as sent its successful attempt was marked once.
C13_OneAttemptEach ==
  /\ \A t \in Threads :
       pc[t] = "done" =>
         /\ Len(calls[t]) = Len(pending[t])
         /\ \A i \in 1..Len(pending[t]) :
              calls[t][i] = [id |-> pending[t][i],
                             to |-> store[pending[t][i]].email,
                             message |-> store[pending[t][i]].message]
         /\ \A r \in Range(pending[t]) : store[r].sent <=> r \in delivered[t]
  /\ \A r \in Ids(store) :
       /\ oks[r] + fails[r] <= runs
       /\ store[r].sent => marks[r] = 1

\* C13 witness: a tick returned having delivered and marked a reminder whose
\* one earlier attempt, in an earlier tick, failed (k = 1), next to a reminder
\* whose send failed in this tick.
C13_Witness ==
  \E t \in Threads :
    /\ pc[t] = "done" /\ Len(pending[t]) = 2
    /\ \E r \in delivered[t] : store[r].sent /\ fails[r] = 1 /\ oks[r] = 1
    /\ FailedIn(t) # {}

\* C14: with the trigger firing on, a stored reminder whose due time the clock
\* has reached is, once the store and the mail transport have stopped failing,
\* eventually mailed with success and stored as sent; this holds for rows
\* created while a tick is running too.
C14_NeverLost ==
  \A r \in 1..MaxReminders :
    (r \in Ids(store) /\ healthy /\ store[r].remind_at <= NowIst(clock))
      ~> (r \in Ids(store) /\ store[r].sent /\ oks[r] >= 1)

\* C14 witness: after failed attempts and a crashed tick the outage has ended
\* and a tick returned with the reminder delivered and stored as sent.
C14_Witness ==
  /\ healthy /\ crashes >= 1
  /\ \E t \in Threads :
       pc[t] = "done" /\ \E r \in delivered[t] : store[r].sent /\ fails[r] >= 1

C16_MisconfiguredNotifier ==
  /\ [][\A t \in Threads :
          (pc[t] = "send" /\ ~configured /\ calls'[t] # calls[t]) =>
            LET r == pending[t][idx[t]]
            IN /\ calls'[t] = Append(calls[t], SendCall(r))
               /\ fails'[r] = Bump(fails[r])
               /\ oks' = oks /\ delivered' = delivered
               /\ store' = store /\ marks' = marks
               /\ crashes' = crashes
               /\ pc'[t] = AfterItem(t, idx[t])]_vars
  /\ \A r \in 1..MaxReminders :
       (configured /\ healthy /\ r \in Ids(store) /\ ~store[r].sent /\ fails[r] >= 1)
         ~> (r \in Ids(store) /\ store[r].sent /\ oks[r] >= 1)

\* C16 witness: a tick has returned with the credentials missing, after one
\* failed Notifier call for each of its two due reminders, none marked.
C16_Witness ==
  /\ ~configured
  /\ \E t \in Threads :
       /\ pc[t] = "done" /\ Len(pending[t]) = 2 /\ Len(calls[t]) = 2
       /\ delivered[t] = {}
       /\ \A r \in Range(pending[t]) : ~store[r].sent /\ fails[r] >= 1 /\ oks[r] = 0

\* C17: frame of a tick. A step of a tick neither adds nor removes a row and
\* leaves every row's email, message and remind_at as they are; the only flag
\* it changes is sent, from false to true, on a row that is in the selection of
\* the committing tick and whose send succeeded in it. Ids are the positions in
\* the table, so they stay unique and fixed.
C17_TickFrame ==
  [][tickVars' # tickVars =>
       /\ Len(store') = Len(store)
       /\ \A r \in Ids(store) :
            /\ store'[r].email = store[r].email
            /\ store'[r].message = store[r].message
            /\ store'[r].remind_at = store[r].remind_at
            /\ store'[r].sent # store[r].sent =>
                 /\ store'[r].sent
                 /\ \E t \in Threads :
                      /\ pc[t] = "commit"
                      /\ r \in Range(pending[t]) /\ r \in delivered[t]]_vars

\* C17 witness: a tick has returned having marked a reminder it sent, next to a
\* row outside its selection that is still unsent.
C17_Witness ==
  \E t \in Threads :
    /\ pc[t] = "done"
    /\ \E r \in delivered[t] : store[r].sent
    /\ \E q \in Ids(store) \ Range(pending[t]) : ~store[q].sent /\ oks[q] = 0 /\ fails[q] = 0

\* the reminders the tick of thread t has sent and the table does not yet show
\* as sent
Unmarked(t) == {r \in delivered[t] : ~store[r].sent}

\* C18: send and mark are one unit per reminder, in order. In a tick that has
\* not raised: the Notifier has been called for exactly the reminders before
\* the current position (and the current one once its send returned success), a
\* selected row is stored as sent only after its own send succeeded, every sent
\* reminder is committed before the Notifier is called for the next, and so at
\* most one reminder is sent but not yet marked, the one being committed.
C18_SendMarkUnit ==
  \A t \in Threads :
    pc[t] \in {"send", "commit", "done"} =>
      /\ Cardinality(Unmarked(t)) <= 1
      /\ Unmarked(t) = dirty[t]
      /\ pc[t] \in {"send", "done"} => Unmarked(t) = {}
      /\ pc[t] = "commit" => Unmarked(t) = {pending[t][idx[t]]}
      /\ \A i \in 1..Len(pending[t]) :
           /\ pending[t][i] \in tried[t] <=> (i < idx[t] \/ (i = idx[t] /\ pc[t] = "commit"))
           /\ store[pending[t][i]].sent => pending[t][i] \in delivered[t]

\* C18 witness: the second reminder of a tick has been sent and is about to be
\* committed, the first one sent by the same tick is already stored as sent.
C18_Witness ==
  \E t \in Threads :
    /\ pc[t] = "commit" /\ idx[t] = 2
    /\ pending[t][1] \in delivered[t] /\ store[pending[t][1]].sent
    /\ pending[t][2] \in delivered[t] /\ ~store[pending[t][2]].sent

\* C19: one clock and one comparison. The clock never goes back; a tick takes
\* the IST now, never the UTC now, and selects exactly the unsent rows with
\* remind_at <= that now; a row is accepted only with remind_at later than the
\* IST now of its creation, so it is not due at its creation instant and is
\* later than the now of every tick that has already read the clock.
C19_OneClock ==
  [][/\ clock' >= clock
     /\ \A t \in Threads : now_ist'[t] <= NowIst(clock')
     /\ \A t \in Threads :
          (pc[t] = "begin" /\ pc'[t] = "query") => now_ist'[t] = NowIst(clock)
     /\ \A t \in Threads :
          (pc[t] = "query" /\ pc'[t] \in {"send", "done"}) =>
            Range(pending'[t]) =
              {r \in Ids(store) : ~store[r].sent /\ store[r].remind_at <= now_ist[t]}
     /\ Len(store') > Len(store) =>
          LET new == store'[Len(store')]
          IN /\ new.remind_at > NowIst(clock)
             /\ ~IsDue(new, NowIst(clock))
             /\ \A t \in Threads : new.remind_at > now_ist[t]]_vars

\* C19 witness: a tick that read the clock after time had passed has selected
\* an unsent row at its due time and left out an unsent row due later, while
\* every stored time is far ahead of the UTC now.
C19_Witness ==
  \E t \in Threads :
    /\ pc[t] = "send" /\ now_ist[t] > NowIst(0)
    /\ \E r \in Range(pending[t]) : store[r].remind_at = now_ist[t]
    /\ \E q \in Ids(store) \ Range(pending[t]) :
         ~store[q].sent /\ store[q].remind_at > now_ist[t]
    /\ \A r \in Ids(store) : store[r].remind_at > NowUtc(clock)

\* C20: at most one successful delivery across worker processes; no reminder is
\* sent successfully by job instances of two different processes.
C20_OncePerReminderAcrossWorkers ==
  \A t, u \in Threads :
    procOf[t] # procOf[u] => delivered[t] \cap delivered[u] = {}

====
